---- MODULE Spec2Model ----
(***************************************************************************)
(* Model of scripts/find_candidates.py: the streaming scan that matches    *)
(* subreddit metadata records against the ORDO vocabulary, deduplicates    *)
(* the hits and appends them chunk by chunk to data/candidate_subreddits.  *)
(*                                                                         *)
(* Text is modelled as tuples of one-character strings, so that prefix     *)
(* stripping, lower-casing, sorting, joining and CSV formatting are        *)
(* computed the way the code computes them.  The spaCy EntityRuler and     *)
(* RapidFuzz are libraries outside the repository: what they return is an  *)
(* input of the model (the exact-match set per record, the best            *)
(* partial_ratio score per query against the catalog loaded at import).    *)
(***************************************************************************)
EXTENDS Integers, Sequences, FiniteSets, TLC

VARIABLES
    pc,          \* position of the process inside scan()
    chunk,       \* CHUNK: the number of lines between two periodic flushes
    nfiles,      \* len(files): number of archives pick_files() returned
    fi,          \* 1-based index of the archive the for loop is at
    rows,        \* the in-memory row buffer
    processed,   \* lines read from the current archive
    seen_hash,   \* the dedup ledger
    total_kept,  \* sum of the values flush() returned
    sink,        \* OUT_CSV as the sequence of its CSV records (text)
    fuzzyScore,  \* extractOne's best score per query for the loaded ORDO_TERMS
    result,      \* what scan() returned
    err,         \* the exception that left scan(), if any
    matched,     \* history: raw names of the records whose match set was non-empty
    appended,    \* history: rows appended to the buffer, in order, with their archive
    flushes,     \* history: the flush() calls that wrote to OUT_CSV
    last,        \* history: how the most recent line was handled
    first,       \* history: per matched raw name, the ids of its first matching record
    verify,      \* args.verify: the --verify flag of the command line
    norm         \* a text and its two normalisations (normalisation scenario only)

vars == <<pc, chunk, nfiles, fi, rows, processed, seen_hash, total_kept, sink,
          fuzzyScore, result, err, matched, appended, flushes, last, first,
          verify, norm>>

-----------------------------------------------------------------------------
(* Bounds of the model *)

\* Archives per run.
MaxFiles == 2

\* Lines per archive.
MaxLines == 3

\* CHUNK of the source is 1_000_000.  A run of the model fixes a small chunk
\* size at its start, so that periodic flushes happen within MaxLines: a run of
\* Spec flushes every CHUNK lines.
CHUNK == 2

\* The flush-boundary scenario runs with every chunk size up to this one.
MaxFlushChunk == 7

\* The records of the scenario that may miss the exact match: the first ones.
FlushVary == 4

(* Program constants *)

FUZZY_THRESH == 85

\* the literal in "len(name) >= 3"
MIN_NAME_LEN == 3

-----------------------------------------------------------------------------
(* Text *)

Header == << <<"s","u","b","r","e","d","d","i","t">>,
             <<"o","r","p","h","a","_","i","d","s">> >>

FUZZY == <<"F","U","Z","Z","Y">>
ORPHA1 == <<"O","R","P","H","A","1">>
ORPHA2 == <<"O","R","P","H","A","2">>

\* Code points of the characters that occur in identifiers.
Code(c) ==
    CASE c = "1" -> 49 [] c = "2" -> 50 [] c = "A" -> 65 [] c = "F" -> 70
      [] c = "H" -> 72 [] c = "O" -> 79 [] c = "P" -> 80 [] c = "R" -> 82
      [] c = "U" -> 85 [] c = "Y" -> 89 [] c = "Z" -> 90 [] OTHER -> 0

\* str.__lt__
RECURSIVE StrLess(_, _)
StrLess(a, b) ==
    IF a = <<>> THEN b # <<>>
    ELSE IF b = <<>> THEN FALSE
    ELSE IF Code(Head(a)) # Code(Head(b)) THEN Code(Head(a)) < Code(Head(b))
    ELSE StrLess(Tail(a), Tail(b))

\* sorted(ids)
RECURSIVE Sorted(_)
Sorted(S) ==
    IF S = {} THEN <<>>
    ELSE LET m == CHOOSE x \in S : \A y \in S \ {x} : StrLess(x, y)
         IN  <<m>> \o Sorted(S \ {m})

\* sep.join(parts)
RECURSIVE Join(_, _)
Join(parts, sep) ==
    IF parts = <<>> THEN <<>>
    ELSE IF Len(parts) = 1 THEN parts[1]
    ELSE parts[1] \o sep \o Join(Tail(parts), sep)

LowerChar(c) ==
    CASE c = "A" -> "a" [] c = "L" -> "l" [] c = "S" -> "s" [] OTHER -> c

\* str.lower()
Lower(s) == [i \in 1..Len(s) |-> LowerChar(s[i])]

\* raw_name[2:] if raw_name.startswith("r/") else raw_name
StripPrefix(raw_name) ==
    IF Len(raw_name) >= 2 /\ raw_name[1] = "r" /\ raw_name[2] = "/"
    THEN SubSeq(raw_name, 3, Len(raw_name))
    ELSE raw_name

\* obj.get("name", "")
RawName(rec) == IF "name" \in DOMAIN rec THEN rec.name ELSE <<>>

\* hashlib.md5(...).hexdigest(): a digest, taken to be collision-free
hash_line(line) == <<"md5", line>>

-----------------------------------------------------------------------------
(* csv.writer with the default dialect (QUOTE_MINIMAL) *)

Special == {",", "\"", "\n", "\r"}

NeedsQuote(f) == \E i \in 1..Len(f) : f[i] \in Special

RECURSIVE DoubleQuotes(_)
DoubleQuotes(f) ==
    IF f = <<>> THEN <<>>
    ELSE (IF Head(f) = "\"" THEN <<"\"", "\"">> ELSE <<Head(f)>>)
         \o DoubleQuotes(Tail(f))

CsvField(f) ==
    IF NeedsQuote(f) THEN <<"\"">> \o DoubleQuotes(f) \o <<"\"">> ELSE f

\* the text csv.writer writes for one row (without the line terminator)
CsvLine(row) ==
    Join([i \in 1..Len(row) |-> CsvField(row[i])], <<",">>)

\* csv.reader on one record: the list of its fields
RECURSIVE CsvSplit(_, _, _, _)
CsvSplit(rest, cur, inq, acc) ==
    IF rest = <<>> THEN Append(acc, cur)
    ELSE LET c == Head(rest) t == Tail(rest) IN
         IF inq
         THEN IF c = "\""
              THEN IF t # <<>> /\ Head(t) = "\""
                   THEN CsvSplit(Tail(t), Append(cur, "\""), TRUE, acc)
                   ELSE CsvSplit(t, cur, FALSE, acc)
              ELSE CsvSplit(t, Append(cur, c), TRUE, acc)
         ELSE IF c = "," THEN CsvSplit(t, <<>>, FALSE, Append(acc, cur))
              ELSE IF c = "\"" /\ cur = <<>> THEN CsvSplit(t, cur, TRUE, acc)
              ELSE CsvSplit(t, Append(cur, c), FALSE, acc)

CsvParse(line) == CsvSplit(line, <<>>, FALSE, <<>>)

-----------------------------------------------------------------------------
(* Inputs *)

\* Raw subreddit names of the records: a prefixed, upper-case name whose
\* stripped form has exactly MIN_NAME_LEN characters, and a prefixed name
\* whose stripped form is shorter although the raw name is not.
Names == { <<"r","/","A","L","S">>, <<"r","/","a","b">> }

\* What hit_ids(txt) can return for a record: nothing, or two identifiers.
ExactSets == { {}, {ORPHA2, ORPHA1} }

\* A line that json.loads accepts as an object: with a string name, or with no
\* name field at all.  exact is what hit_ids returns for its composite text.
Records == [name : Names, exact : ExactSets] \cup [exact : ExactSets]

\* name.lower() of every record: what extractOne would be asked about.
Queries == { Lower(StripPrefix(RawName(r))) : r \in Records }

\* Scores on both sides of the threshold.
Scores == {84, 85}

\* extractOne(query, ORDO_TERMS, scorer=fuzz.partial_ratio)[1] for the catalogs
\* of the model.  A two-letter query is a substring of some term, so it scores
\* 100; the empty query scores 0; a longer query scores on either side of the
\* threshold, depending on the catalog.
ScoreTables ==
    { [q \in Queries |-> IF q = <<>> THEN 0
                         ELSE IF Len(q) < 3 THEN 100 ELSE s] : s \in Scores }

\* OUT_CSV as an earlier run left it.
PriorSink == <<CsvLine(Header), CsvLine(<<<<"o","l","d">>, FUZZY>>)>>

NoLine == [kind |-> "none"]

NoText == [kind |-> "none"]

-----------------------------------------------------------------------------
(* flush(rows) *)

\* fault: the rows of a flush written last first
Flush_reversed(s, rs) ==
    s \o [i \in 1..Len(rs) |-> CsvLine(rs[Len(rs) + 1 - i])]

\* fault: OUT_CSV opened with "w" instead of "a"
Flush_truncating(s, rs) == [i \in 1..Len(rs) |-> CsvLine(rs[i])]

\* OUT_CSV after flush(rows): opened in append mode, writerows(rows)
Flush(s, rs) == s \o [i \in 1..Len(rs) |-> CsvLine(rs[i])]

\* the value flush(rows) returns
FlushCount(rs) == Len(rs)

\* history of flush(rows): "if not rows: return 0" writes nothing
Flushed(fl, p, rs) ==
    IF rs = <<>> THEN fl ELSE Append(fl, [at |-> p, n |-> Len(rs)])

\* fault: the period is off by one
ShouldFlush_offByOne(p) == p % (chunk + 1) = 0

\* processed % CHUNK == 0
ShouldFlush(p) == p % chunk = 0

-----------------------------------------------------------------------------
(* Matching of one record *)

\* fault: the backup does not look at the exact match
FuzzyAttempted_always(exact, name) == Len(name) >= MIN_NAME_LEN

\* fault: the backup does not look at the length of the name
FuzzyAttempted_anyLength(exact, name) == exact = {}

\* "if not ids and len(name) >= 3"
FuzzyAttempted(exact, name) == exact = {} /\ Len(name) >= MIN_NAME_LEN

\* fault: the score taken to be a fraction of 1
FuzzyAccepted_fraction(score) == score * 100 >= FUZZY_THRESH

\* "if score >= FUZZY_THRESH"
FuzzyAccepted(score) == score >= FUZZY_THRESH

\* ids after the exact match and the fuzzy backup
MatchIds(exact, name, score) ==
    IF FuzzyAttempted(exact, name) /\ FuzzyAccepted(score) THEN {FUZZY} ELSE exact

\* fault: the ledger is not consulted
IsNew_unchecked(h, seen) == TRUE

\* "if h not in seen_hash"
IsNew(h, seen) == h \notin seen

\* fault: the fingerprint is not added to the ledger
Record_forgotten(seen, h) == seen

\* seen_hash.add(h)
Record(seen, h) == seen \cup {h}

\* fault: the stripped name used as the output key
Row_stripped(raw_name, ids) ==
    <<StripPrefix(raw_name), Join(Sorted(ids), <<";">>)>>

\* [raw_name, ";".join(sorted(ids))]
Row(raw_name, ids) == <<raw_name, Join(Sorted(ids), <<";">>)>>

-----------------------------------------------------------------------------
(* scan() *)

Init ==
    /\ pc = "start"
    /\ chunk = CHUNK
    /\ nfiles \in 0..MaxFiles
    /\ fi = 1
    /\ rows = <<>>
    /\ processed = 0
    /\ seen_hash = {}
    /\ total_kept = 0
    /\ sink = PriorSink
    /\ fuzzyScore \in ScoreTables
    /\ result = "none"
    /\ err = "none"
    /\ matched = {}
    /\ appended = <<>>
    /\ flushes = <<>>
    /\ last = NoLine
    /\ first = {}
    /\ verify \in BOOLEAN
    /\ norm = NoText

\* fault: OUT_CSV created before the list of archives is looked at
NoFiles_truncating ==
    /\ pc = "start"
    /\ nfiles = 0
    /\ sink' = <<CsvLine(Header)>>
    /\ pc' = "abort"
    /\ err' = "SystemExit"
    /\ UNCHANGED <<verify, norm, first, chunk, nfiles, fi, rows, processed, seen_hash,
                   total_kept, fuzzyScore, result, matched, appended, flushes, last>>

\* files = pick_files(); no files: SystemExit before OUT_CSV is touched
NoFiles ==
    /\ pc = "start"
    /\ nfiles = 0
    /\ pc' = "abort"
    /\ err' = "SystemExit"
    /\ UNCHANGED <<verify, norm, first, chunk, nfiles, fi, rows, processed, seen_hash, total_kept, sink,
                   fuzzyScore, result, matched, appended, flushes, last>>

\* OUT_CSV.open("w") and the header row; seen_hash, total_kept = set(), 0
ScanStart ==
    /\ pc = "start"
    /\ nfiles > 0
    /\ sink' = <<CsvLine(Header)>>
    /\ seen_hash' = {}
    /\ total_kept' = 0
    /\ fi' = 1
    /\ pc' = "files"
    /\ UNCHANGED <<verify, norm, first, chunk, nfiles, rows, processed, fuzzyScore, result, err,
                   matched, appended, flushes, last>>

\* for fn in files: rows, processed = [], 0; open_zst(fn) succeeds
OpenArchive ==
    /\ pc = "files"
    /\ fi <= nfiles
    /\ rows' = <<>>
    /\ processed' = 0
    /\ pc' = "read"
    /\ UNCHANGED <<verify, norm, first, chunk, nfiles, fi, seen_hash, total_kept, sink, fuzzyScore, result,
                   err, matched, appended, flushes, last>>

\* open_zst(fn) raises (open(path, "rb") fails): nothing in scan() catches it
OpenArchiveFails ==
    /\ pc = "files"
    /\ fi <= nfiles
    /\ rows' = <<>>
    /\ processed' = 0
    /\ pc' = "crashed"
    /\ err' = "open"
    /\ UNCHANGED <<verify, norm, first, chunk, nfiles, fi, seen_hash, total_kept, sink, fuzzyScore, result,
                   matched, appended, flushes, last>>

\* One line of the archive that parses to an object: match, dedup, buffer.
ProcessLine(rec) ==
    LET raw_name == RawName(rec)
        name     == StripPrefix(raw_name)
        called   == FuzzyAttempted(rec.exact, name)
        score    == IF called THEN fuzzyScore[Lower(name)] ELSE 0
        ids      == MatchIds(rec.exact, name, score)
        h        == hash_line(raw_name)
        keep     == ids # {} /\ IsNew(h, seen_hash)
    IN  /\ processed' = processed + 1
        /\ rows' = IF keep THEN Append(rows, Row(raw_name, ids)) ELSE rows
        /\ seen_hash' = IF keep THEN Record(seen_hash, h) ELSE seen_hash
        /\ matched' = IF ids # {} THEN matched \cup {raw_name} ELSE matched
        /\ appended' = IF keep
                       THEN Append(appended, [row |-> Row(raw_name, ids),
                                              ids |-> ids, file |-> fi])
                       ELSE appended
        /\ last' = [kind |-> "record", named |-> "name" \in DOMAIN rec,
                    raw |-> raw_name, exact |-> rec.exact,
                    called |-> called, ids |-> ids, kept |-> keep]
        /\ first' = IF ids # {} /\ raw_name \notin matched
                    THEN first \cup {<<raw_name, ids>>} ELSE first
        /\ pc' = "chunk"
        /\ UNCHANGED <<verify, norm, chunk, nfiles, fi, total_kept, sink, fuzzyScore, result, err,
                       flushes>>

\* for line in fh: the next line is a well-formed record
ReadLine ==
    /\ pc = "read"
    /\ processed < MaxLines
    /\ \E rec \in Records : ProcessLine(rec)

\* json.loads(line) raises on a line that is not JSON: nothing catches it
ReadMalformedLine ==
    /\ pc = "read"
    /\ processed < MaxLines
    /\ processed' = processed + 1
    /\ last' = [kind |-> "malformed"]
    /\ pc' = "crashed"
    /\ err' = "json"
    /\ UNCHANGED <<verify, norm, first, chunk, nfiles, fi, rows, seen_hash, total_kept, sink, fuzzyScore,
                   result, matched, appended, flushes>>

\* the line is JSON but not an object, or its name is not a string:
\* obj.get / raw_name.startswith raises
ReadNonRecordLine ==
    /\ pc = "read"
    /\ processed < MaxLines
    /\ processed' = processed + 1
    /\ last' = [kind |-> "nonrecord"]
    /\ pc' = "crashed"
    /\ err' = "attribute"
    /\ UNCHANGED <<verify, norm, first, chunk, nfiles, fi, rows, seen_hash, total_kept, sink, fuzzyScore,
                   result, matched, appended, flushes>>

\* the zstd stream is corrupt or truncated: the read raises mid-stream
ReadDecodeError ==
    /\ pc = "read"
    /\ pc' = "crashed"
    /\ err' = "decode"
    /\ UNCHANGED <<verify, norm, first, chunk, nfiles, fi, rows, processed, seen_hash, total_kept, sink,
                   fuzzyScore, result, matched, appended, flushes, last>>

\* if processed % CHUNK == 0: total_kept += flush(rows); rows.clear()
ChunkCheck ==
    /\ pc = "chunk"
    /\ IF ShouldFlush(processed)
       THEN /\ sink' = Flush(sink, rows)
            /\ total_kept' = total_kept + FlushCount(rows)
            /\ flushes' = Flushed(flushes, processed, rows)
            /\ rows' = <<>>
       ELSE UNCHANGED <<sink, total_kept, flushes, rows>>
    /\ last' = NoLine
    /\ pc' = "read"
    /\ UNCHANGED <<verify, norm, first, chunk, nfiles, fi, processed, seen_hash, fuzzyScore, result, err,
                   matched, appended>>

\* fault: no flush at the end of an archive
EndArchive_noFlush ==
    /\ pc = "read"
    /\ fi' = fi + 1
    /\ pc' = "files"
    /\ UNCHANGED <<verify, norm, first, chunk, nfiles, rows, processed, seen_hash,
                   total_kept, sink, fuzzyScore, result, err, matched, appended,
                   flushes, last>>

\* end of the archive: total_kept += flush(rows); rows is not cleared here
EndArchive ==
    /\ pc = "read"
    /\ sink' = Flush(sink, rows)
    /\ total_kept' = total_kept + FlushCount(rows)
    /\ flushes' = Flushed(flushes, processed, rows)
    /\ fi' = fi + 1
    /\ pc' = "files"
    /\ UNCHANGED <<verify, norm, first, chunk, nfiles, rows, processed, seen_hash, fuzzyScore, result, err,
                   matched, appended, last>>

\* fault: an empty run reported as a success
ScanResult_nonNegative(total) == total >= 0

\* return total_kept > 0
ScanResult(total) == total > 0

Return ==
    /\ pc = "files"
    /\ fi > nfiles
    /\ result' = ScanResult(total_kept)
    /\ pc' = "done"
    /\ UNCHANGED <<verify, norm, first, chunk, nfiles, fi, rows, processed, seen_hash, total_kept, sink,
                   fuzzyScore, err, matched, appended, flushes, last>>

-----------------------------------------------------------------------------
(* The entry point: "if scan() and args.verify: run_verify()" *)

\* fault: the scan's result is not looked at
RunsVerify_flagOnly(r, v) == v

\* scan() and args.verify
RunsVerify(r, v) == r /\ v

\* run_verify(): the verification script is started as a child process
StartVerify ==
    /\ pc = "done"
    /\ RunsVerify(result, verify)
    /\ pc' = "verify"
    /\ UNCHANGED <<verify, norm, first, chunk, nfiles, fi, rows, processed, seen_hash,
                   total_kept, sink, fuzzyScore, result, err, matched, appended,
                   flushes, last>>

\* the condition is false: the process ends after the scan
ExitAfterScan ==
    /\ pc = "done"
    /\ ~RunsVerify(result, verify)
    /\ pc' = "exit"
    /\ UNCHANGED <<verify, norm, first, chunk, nfiles, fi, rows, processed, seen_hash,
                   total_kept, sink, fuzzyScore, result, err, matched, appended,
                   flushes, last>>

\* subprocess.run(..., check=True) returns: the child exited with status 0
VerifyOk ==
    /\ pc = "verify"
    /\ pc' = "exit"
    /\ UNCHANGED <<verify, norm, first, chunk, nfiles, fi, rows, processed, seen_hash,
                   total_kept, sink, fuzzyScore, result, err, matched, appended,
                   flushes, last>>

\* check=True: a non-zero status raises CalledProcessError, which ends the run
VerifyFails ==
    /\ pc = "verify"
    /\ pc' = "verify_failed"
    /\ err' = "CalledProcessError"
    /\ UNCHANGED <<verify, norm, first, chunk, nfiles, fi, rows, processed, seen_hash,
                   total_kept, sink, fuzzyScore, result, matched, appended,
                   flushes, last>>

Next ==
    \/ NoFiles
    \/ ScanStart
    \/ OpenArchive
    \/ OpenArchiveFails
    \/ ReadLine
    \/ ReadMalformedLine
    \/ ReadNonRecordLine
    \/ ReadDecodeError
    \/ ChunkCheck
    \/ EndArchive
    \/ Return
    \/ StartVerify
    \/ ExitAfterScan
    \/ VerifyOk
    \/ VerifyFails

Spec == Init /\ [][Next]_vars

-----------------------------------------------------------------------------
(* The flush-boundary scenario: one archive of exactly 2*chunk+5 records that *)
(* all match and have pairwise distinct raw names.                           *)

FlushTotal == 2 * chunk + 5

\* the k-th raw name: "r/" and k+2 letters
FlushName(k) == <<"r", "/">> \o [i \in 1..(k + 2) |-> "x"]

\* the k-th record matches exactly or, among the first FlushVary, misses
\* exactly and is left to the fuzzy backup
FlushRecords(k) ==
    { [name |-> FlushName(k), exact |-> e] :
        e \in IF k <= FlushVary THEN ExactSets ELSE ExactSets \ {{}} }

FlushQueries ==
    { Lower(StripPrefix(FlushName(k))) : k \in 1..(2 * MaxFlushChunk + 5) }

InitFlush ==
    /\ pc = "start"
    /\ chunk \in 1..MaxFlushChunk
    /\ nfiles = 1
    /\ fi = 1
    /\ rows = <<>>
    /\ processed = 0
    /\ seen_hash = {}
    /\ total_kept = 0
    /\ sink = PriorSink
    /\ fuzzyScore \in { [q \in FlushQueries |-> s] : s \in {FUZZY_THRESH, 100} }
    /\ result = "none"
    /\ err = "none"
    /\ matched = {}
    /\ appended = <<>>
    /\ flushes = <<>>
    /\ last = NoLine
    /\ first = {}
    /\ verify = FALSE
    /\ norm = NoText

ReadLineFlush ==
    /\ pc = "read"
    /\ processed < FlushTotal
    /\ \E rec \in FlushRecords(processed + 1) : ProcessLine(rec)

EndArchiveFlush ==
    /\ processed = FlushTotal
    /\ EndArchive

NextFlush ==
    \/ ScanStart
    \/ OpenArchive
    \/ ReadLineFlush
    \/ ChunkCheck
    \/ EndArchiveFlush
    \/ Return

SpecFlush == InitFlush /\ [][NextFlush]_vars

-----------------------------------------------------------------------------
(* The normalisation scenario: one text, normalised the way scan() prepares  *)
(* the matcher's input and the way build_ordo_vocab.py prepared the terms.   *)
(* A character outside ASCII is written as its code point.                   *)

\* unicodedata.normalize("NFKD", c) for one character: e-acute decomposes to
\* e and the combining acute, the fi ligature to f and i
NfkdChar(c) ==
    CASE c = "U+00E9" -> <<"e", "U+0301">>
      [] c = "U+FB01" -> <<"f", "i">>
      [] OTHER -> <<c>>

\* unicodedata.normalize("NFKD", text)
RECURSIVE Nfkd(_)
Nfkd(t) == IF t = <<>> THEN <<>> ELSE NfkdChar(Head(t)) \o Nfkd(Tail(t))

\* the character class of the re.sub that unifies dashes: hyphen, en dash,
\* em dash and minus sign
Dashes == {"U+2010", "U+2013", "U+2014", "U+2212"}

UnifyDashes(t) == [i \in 1..Len(t) |-> IF t[i] \in Dashes THEN "-" ELSE t[i]]

\* build_ordo_vocab.normalise(text)
normalise(t) == Lower(UnifyDashes(Nfkd(t)))

\* what scan() does to the composite text before hit_ids: ".lower()"
ScanNormalise(t) == Lower(t)

\* Characters of the texts: letters in both cases, the ASCII hyphen, the en
\* dash and a precomposed accented letter.
NormAlphabet == {"A", "a", "-", "U+2013", "U+00E9"}

\* Longest text of the scenario.
MaxTextLen == 3

Texts == UNION { [1..n -> NormAlphabet] : n \in 0..MaxTextLen }

InitNorm ==
    /\ pc = "text"
    /\ norm \in { [kind |-> "text", text |-> t] : t \in Texts }
    /\ chunk = CHUNK
    /\ nfiles = 0
    /\ fi = 1
    /\ rows = <<>>
    /\ processed = 0
    /\ seen_hash = {}
    /\ total_kept = 0
    /\ sink = PriorSink
    /\ fuzzyScore = [q \in Queries |-> 0]
    /\ result = "none"
    /\ err = "none"
    /\ matched = {}
    /\ appended = <<>>
    /\ flushes = <<>>
    /\ last = NoLine
    /\ first = {}
    /\ verify = FALSE

\* both normalisations of the text
Normalise ==
    /\ pc = "text"
    /\ norm' = [kind |-> "normalised", text |-> norm.text,
                scan |-> ScanNormalise(norm.text),
                build |-> normalise(norm.text)]
    /\ pc' = "normalised"
    /\ UNCHANGED <<verify, first, chunk, nfiles, fi, rows, processed, seen_hash,
                   total_kept, sink, fuzzyScore, result, err, matched, appended,
                   flushes, last>>

NextNorm == Normalise

SpecNorm == InitNorm /\ [][NextNorm]_vars

-----------------------------------------------------------------------------
(* Views of the state *)

\* the data rows of OUT_CSV, re-read
SinkRows == [i \in 1..(Len(sink) - 1) |-> CsvParse(sink[i + 1])]

\* rows appended to the buffer and not yet written
Unflushed ==
    IF pc \in {"files", "done", "start", "abort",
               "verify", "verify_failed", "exit"} THEN <<>> ELSE rows

Started == pc \notin {"start", "abort"}

IsPrefix(a, b) == Len(a) <= Len(b) /\ SubSeq(b, 1, Len(a)) = a

\* the first line of the output file, as text
HeaderText == <<"s","u","b","r","e","d","d","i","t",",",
                "o","r","p","h","a","_","i","d","s">>

\* the text flush() would write for a sequence of rows
Lines(rs) == [i \in 1..Len(rs) |-> CsvLine(rs[i])]

\* the query extractOne gets for a raw name
QueryOf(raw) == Lower(StripPrefix(raw))

AtRecord == pc = "chunk" /\ last.kind = "record"

\* a step that reads one well-formed record
RecordStep == pc = "read" /\ pc' = "chunk"

\* text.split(sep) on a field read back from the output file
RECURSIVE SplitOn(_, _, _)
SplitOn(t, sep, cur) ==
    IF t = <<>> THEN <<cur>>
    ELSE IF Head(t) = sep THEN <<cur>> \o SplitOn(Tail(t), sep, <<>>)
    ELSE SplitOn(Tail(t), sep, Append(cur, Head(t)))

Range(f) == { f[i] : i \in DOMAIN f }

\* the second column expected for the identifier sets of the model
IdsText(ids) ==
    IF ids = {FUZZY} THEN FUZZY ELSE ORPHA1 \o <<";">> \o ORPHA2

\* run_verify() has been called
VerifyStarted == pc \in {"verify", "verify_failed"}

-----------------------------------------------------------------------------
(* Properties *)

\* C1: dedup across the whole run.  In every state no two data rows of the
\* output file, and no two rows written or buffered, carry the same raw name
\* (the same fingerprint); when scan() has returned, every raw name that
\* matched at least once has exactly one data row in the output file, and the
\* file has no other rows.
C1_DedupWholeRun ==
    LET all == SinkRows \o Unflushed IN
    Started =>
      /\ \A i, j \in 1..Len(all) :
            i # j => hash_line(all[i][1]) # hash_line(all[j][1])
      /\ pc = "done" =>
            /\ \A n \in matched :
                  Cardinality({i \in 1..Len(SinkRows) : SinkRows[i][1] = n}) = 1
            /\ \A i \in 1..Len(SinkRows) : SinkRows[i][1] \in matched

\* A matching record of the second archive has just been discarded because its
\* name was emitted from the first archive and is already in the output file.
C1_Witness ==
    /\ AtRecord
    /\ last.ids # {}
    /\ ~last.kept
    /\ fi = 2
    /\ \E i \in 1..Len(SinkRows) : SinkRows[i][1] = last.raw
    /\ \E i \in 1..Len(appended) :
          appended[i].file = 1 /\ appended[i].row[1] = last.raw

\* C2: an archive that cannot be opened or decompressed does not end the run:
\* scan() goes on with the next archive.
C2_ArchiveFailureNonFatal ==
    err \in {"open", "decode"} => pc # "crashed"

\* C3: a line that is not JSON does not end the run: scan() goes on with the
\* next line.
C3_MalformedLineNonFatal ==
    err = "json" => pc # "crashed"

\* C4: with chunk size C and one archive of exactly 2C+5 matching records with
\* distinct names, the output file ends with exactly 2C+5 data rows, written
\* by at least three flushes, the first of C rows at processed = C and the
\* second of C rows at processed = 2C; when C exceeds 5, as the program's
\* 1,000,000 does, there is exactly one more, the final flush of the remaining
\* 5 rows at the end of the archive.
C4_FlushBoundary ==
    pc = "done" =>
      /\ Len(sink) - 1 = 2 * chunk + 5
      /\ total_kept = 2 * chunk + 5
      /\ Len(flushes) >= 3
      /\ flushes[1] = [at |-> chunk, n |-> chunk]
      /\ flushes[2] = [at |-> 2 * chunk, n |-> chunk]
      /\ chunk > 5 =>
            flushes = << [at |-> chunk, n |-> chunk],
                         [at |-> 2 * chunk, n |-> chunk],
                         [at |-> 2 * chunk + 5, n |-> 5] >>

\* The scenario has run to its end with a chunk size above 5, with exact and
\* fuzzy rows in the file.
C4_Witness ==
    /\ pc = "done"
    /\ chunk > 5
    /\ processed = 2 * chunk + 5
    /\ Len(flushes) = 3
    /\ \E i \in 1..Len(SinkRows) : SinkRows[i][2] = FUZZY
    /\ \E i \in 1..Len(SinkRows) : SinkRows[i][2] # FUZZY

\* C5: in every state the rows that are only in the buffer number at most
\* the chunk size, and every row ever appended is either in the output file or among
\* them: a kill loses at most one chunk of matches and no flushed row.
C5_BoundedLoss ==
    Started =>
      /\ Len(Unflushed) <= chunk
      /\ Lines([i \in 1..Len(appended) |-> appended[i].row])
            = Tail(sink) \o Lines(Unflushed)

\* The buffer holds a full chunk, just before the periodic flush.
C5_Witness ==
    /\ pc = "chunk"
    /\ Len(Unflushed) = chunk
    /\ Len(sink) > 1

\* C6: for a record whose exact match is non-empty the fuzzy matcher is not
\* invoked and the identifier set emitted is the exact-match set; the row it
\* appends carries the sorted exact identifiers, not the sentinel.
C6_NoFuzzyAfterExact ==
    (AtRecord /\ last.exact # {}) =>
      /\ ~last.called
      /\ last.ids = last.exact
      /\ FUZZY \notin last.ids
      /\ last.kept =>
            /\ rows # <<>>
            /\ rows[Len(rows)] = <<last.raw, ORPHA1 \o <<";">> \o ORPHA2>>

\* An exact match on a name that the fuzzy matcher would have accepted.
C6_Witness ==
    /\ AtRecord
    /\ last.exact # {}
    /\ last.kept
    /\ Len(StripPrefix(last.raw)) >= MIN_NAME_LEN
    /\ fuzzyScore[QueryOf(last.raw)] >= FUZZY_THRESH

\* C7: a record whose exact match is empty appends a row only if the best
\* score of its stripped, lower-cased name is at least 85, and the row then
\* carries exactly the sentinel; with a best score below 85 the step appends
\* nothing to the buffer.
C7_FuzzyThreshold ==
    [][ (pc = "read" /\ pc' = "chunk" /\ last'.exact = {}) =>
          /\ rows' # rows =>
                /\ fuzzyScore[QueryOf(last'.raw)] >= 85
                /\ rows' = Append(rows, <<last'.raw, FUZZY>>)
          /\ last'.ids # {} =>
                /\ fuzzyScore[QueryOf(last'.raw)] >= 85
                /\ last'.ids = {FUZZY}
          /\ fuzzyScore[QueryOf(last'.raw)] < 85 =>
                /\ last'.ids = {}
                /\ rows' = rows
                /\ appended' = appended
                /\ seen_hash' = seen_hash ]_vars

\* The fuzzy matcher was asked and its best score, 84, was not enough.
C7_Witness ==
    /\ AtRecord
    /\ last.exact = {}
    /\ last.called
    /\ fuzzyScore[QueryOf(last.raw)] = 84
    /\ last.ids = {}

\* C8: for a record whose exact match is empty and whose stripped name is
\* shorter than the minimum length the fuzzy matcher is not invoked and the
\* record emits nothing; no row of a name that short ever carries the sentinel.
C8_MinLengthGate ==
    /\ (AtRecord /\ last.exact = {}
          /\ Len(StripPrefix(last.raw)) < MIN_NAME_LEN) =>
          /\ ~last.called
          /\ last.ids = {}
          /\ ~last.kept
    /\ \A i \in 1..Len(appended) :
          Len(StripPrefix(appended[i].row[1])) < MIN_NAME_LEN
             => appended[i].row[2] # FUZZY

\* A two-letter name with no exact match that the catalog would have accepted.
C8_Witness ==
    /\ AtRecord
    /\ last.exact = {}
    /\ Len(StripPrefix(last.raw)) = 2
    /\ fuzzyScore[QueryOf(last.raw)] >= FUZZY_THRESH

\* C9: the run replaces the earlier contents of the output file by the header
\* line alone; from then on the file starts with the header, holds it once,
\* holds only whole two-column rows after it, and every step extends the
\* file's earlier contents.
C9_SinkProtocol ==
    /\ [](Started =>
            /\ sink # <<>>
            /\ sink[1] = HeaderText
            /\ \A i \in 2..Len(sink) :
                  sink[i] # HeaderText /\ Len(CsvParse(sink[i])) = 2)
    /\ [][(pc = "start" /\ pc' # "abort") => sink' = <<HeaderText>>]_vars
    /\ [][Started => IsPrefix(sink, sink')]_vars

\* A run that replaced the earlier file and then appended in two flushes.
C9_Witness ==
    /\ pc = "done"
    /\ Len(flushes) >= 2
    /\ Len(sink) >= 3
    /\ \A i \in 1..Len(sink) : sink[i] # PriorSink[2]

\* C10: scan() returns true exactly when the run appended at least one data
\* row to the output file, and total_kept, which it decides on, is the number
\* of data rows in the file.
C10_SuccessSignal ==
    /\ Started => total_kept = Len(sink) - 1
    /\ pc = "done" =>
          /\ result \in BOOLEAN
          /\ result = (Len(sink) - 1 > 0)
          /\ total_kept = Len(appended)

\* A run that scanned records and returned false because none matched.
C10_Witness ==
    /\ pc = "done"
    /\ result = FALSE
    /\ processed > 0
    /\ Len(sink) = 1

\* C11: the verification process is started only from a scan that has
\* returned, with all archives read and every buffered row written, and only
\* when --verify was given and scan() returned true.
C11_VerificationOrdering ==
    /\ [](VerifyStarted =>
            /\ verify
            /\ result = TRUE
            /\ fi = nfiles + 1
            /\ Lines([i \in 1..Len(appended) |-> appended[i].row]) = Tail(sink)
            /\ Len(sink) > 1)
    /\ [][(pc' = "verify" /\ pc # "verify") => pc = "done"]_vars
    /\ [][(pc = "done" /\ ~(verify /\ result = TRUE)) => pc' \in {"done", "exit"}]_vars

\* Verification runs after a scan of two archives that wrote rows.
C11_Witness ==
    /\ pc = "verify"
    /\ nfiles = 2
    /\ Len(flushes) >= 2

\* C12: when scan() has returned, the data rows of the output file, read back
\* in file order, are the rows appended to the buffer during the run, in the
\* order of their appending (archive by archive); each row read back has the
\* raw name and, split on semicolons, the identifier set of the row in memory.
C12_RoundTripOrder ==
    pc = "done" =>
      /\ Len(SinkRows) = Len(appended)
      /\ \A i \in 1..Len(appended) :
            /\ Len(SinkRows[i]) = 2
            /\ SinkRows[i][1] = appended[i].row[1]
            /\ Range(SplitOn(SinkRows[i][2], ";", <<>>)) = appended[i].ids
      /\ \A i, j \in 1..Len(appended) :
            i < j => appended[i].file <= appended[j].file

\* A finished run whose file holds rows of both archives, two of them written
\* by one flush, with a fuzzy row and a row of two identifiers.
C12_Witness ==
    /\ pc = "done"
    /\ \E i, j \in 1..Len(appended) :
          /\ appended[i].file = 1 /\ appended[j].file = 2
          /\ appended[i].ids = {FUZZY} /\ Cardinality(appended[j].ids) = 2
    /\ \E k \in 1..Len(flushes) : flushes[k].n >= 2

\* C13: the row a record appends has the record's raw name, prefix included,
\* as its first column and its identifiers, sorted and joined by semicolons,
\* as its second; the rows of the output file are of that form.
C13_RowFormat ==
    /\ (AtRecord /\ last.kept) =>
          /\ rows # <<>>
          /\ rows[Len(rows)] = <<last.raw, IdsText(last.ids)>>
    /\ Started =>
          \A i \in 1..Len(SinkRows) :
             /\ SinkRows[i][1] \in Names \cup {<<>>}
             /\ SinkRows[i][2] \in {FUZZY, ORPHA1 \o <<";">> \o ORPHA2}

\* A prefixed name has just been emitted with two identifiers.
C13_Witness ==
    /\ AtRecord
    /\ last.kept
    /\ StripPrefix(last.raw) # last.raw
    /\ last.ids = {ORPHA1, ORPHA2}

\* C14: a record that has no name field produces no candidate row.
C14_MissingFieldSkipped ==
    (AtRecord /\ ~last.named) => ~last.kept

\* C15: with no input archives the run aborts in its first step: no record is
\* read, the output file keeps the contents the earlier run left, nothing is
\* returned and nothing follows the abort, so verification is not started.
C15_AbortOnNoInput ==
    /\ [](pc = "abort" =>
            /\ nfiles = 0
            /\ sink = PriorSink
            /\ processed = 0
            /\ last = NoLine
            /\ appended = <<>>
            /\ result = "none")
    /\ [](nfiles = 0 => pc \in {"start", "abort"})
    /\ [][pc = "abort" => pc' = "abort"]_vars

\* The run was asked to verify and aborted for lack of archives.
C15_Witness ==
    /\ pc = "abort"
    /\ verify
    /\ Len(sink) = 2

\* C16: for every text, what scan() does to it before matching equals what
\* normalise() of the vocabulary builder does to it.
C16_NormalizationParity ==
    pc = "normalised" => norm.scan = norm.build

\* C17: for a record the exact match missed, the fuzzy matcher is tried if and
\* only if the stripped name has at least 4 characters.
C17_FuzzyLengthRule ==
    (AtRecord /\ last.exact = {}) =>
       (last.called <=> Len(StripPrefix(last.raw)) >= 4)

\* C18, as stated: the buffer is empty when the first record of an archive is
\* read and when the scan ends, and every row appended is in the output file
\* once its archive has been read.
C18_BufferEmptyAtBoundaries ==
    /\ (pc = "read" /\ processed = 0) => rows = <<>>
    /\ pc = "done" => rows = <<>>
    /\ pc \in {"files", "done"} =>
          Lines([i \in 1..Len(appended) |-> appended[i].row]) = Tail(sink)

\* C18, amended: the buffer is empty when the first record of an archive is
\* read; between two archives and when the scan ends every row appended so far
\* is in the output file, the rows of archive k before any record of archive
\* k+1 is read.  (The list is not cleared by the flush at the end of an
\* archive: at the end of the scan it still holds the rows written last.)
C18_FlushAtArchiveBoundary ==
    /\ (pc = "read" /\ processed = 0) => rows = <<>>
    /\ pc \in {"files", "done"} =>
          Lines([i \in 1..Len(appended) |-> appended[i].row]) = Tail(sink)
    /\ Started =>
          \A i \in 1..Len(appended) :
             appended[i].file < fi =>
                /\ i <= Len(sink) - 1
                /\ sink[i + 1] = CsvLine(appended[i].row)

\* The second archive is about to be read and the rows of the first, left in
\* the buffer when it ended, are in the file.
C18_Witness ==
    /\ pc = "read"
    /\ processed = 0
    /\ fi = 2
    /\ \E k \in 1..Len(flushes) : flushes[k].at % chunk # 0

\* C19: in every state of the scan the ledger holds exactly the fingerprints
\* of the names of the rows in the buffer or in the output file; a record that
\* does not match leaves it unchanged; it never shrinks; when scan() returns,
\* its size is the number of data rows in the file and the total reported.
C19_LedgerInStep ==
    /\ [](Started =>
            seen_hash = { hash_line(r[1]) : r \in Range(SinkRows) \cup Range(rows) })
    /\ [](pc = "done" =>
            /\ Cardinality(seen_hash) = Len(sink) - 1
            /\ Cardinality(seen_hash) = total_kept)
    /\ [][seen_hash \subseteq seen_hash']_vars
    /\ [][(RecordStep /\ last'.ids = {}) => seen_hash' = seen_hash]_vars

\* A record that did not match has left a non-empty ledger without its name.
C19_Witness ==
    /\ AtRecord
    /\ last.ids = {}
    /\ seen_hash # {}
    /\ hash_line(last.raw) \notin seen_hash

\* C20: the row of a name carries the identifiers of the first record of that
\* name that matched; a later matching record of the name changes neither the
\* buffer nor the file nor the ledger, whatever its identifiers.
C20_FirstMatchWins ==
    /\ [](Started =>
            /\ \A i \in 1..Len(appended) :
                  <<appended[i].row[1], appended[i].ids>> \in first
            /\ \A r \in Range(SinkRows) \cup Range(Unflushed) :
                  \E f \in first : r = <<f[1], IdsText(f[2])>>)
    /\ [][(RecordStep /\ last'.ids # {} /\ last'.raw \in matched) =>
            /\ rows' = rows
            /\ sink' = sink
            /\ appended' = appended
            /\ seen_hash' = seen_hash]_vars

\* A record with an exact match has just been discarded: the row of its name
\* is the fuzzy row of an earlier record.
C20_Witness ==
    /\ AtRecord
    /\ ~last.kept
    /\ last.ids = {ORPHA1, ORPHA2}
    /\ <<last.raw, {FUZZY}>> \in first
    /\ \E r \in Range(SinkRows) \cup Range(Unflushed) : r = <<last.raw, FUZZY>>

====
